---- MODULE Spec2Model ----
(***************************************************************************)
(* simple-tile-downloader: tile-grid arithmetic (src/src/tilegrid.ts),     *)
(* configuration (processTilesConfig, src/src/tiles.ts) and the            *)
(* concurrency-bounded download generator fetchTiles (src/src/tiles.ts).   *)
(*                                                                         *)
(* Coordinates are integers.  A resolution maxDimension/(tileSize*2^z) is  *)
(* kept as the exact fraction [num, den]; floating-point rounding is not   *)
(* modelled.  Math.floor(a / b) with b > 0 is a \div b.                    *)
(***************************************************************************)
EXTENDS Integers, Sequences, FiniteSets, TLC

VARIABLES
    extent,               \* getTileRangeForExtent: argument extent
    zoom,                 \* getTileRangeForExtent: argument zoom
    grid,                 \* getTileRangeForExtent: argument grid
    tileRange,            \* getTileRangeForExtent: returned TileRange / thrown error
    tilesConfig,          \* processTilesConfig: argument config (TilesConfig)
    config,               \* FetchTilesConfig returned by processTilesConfig
    maxParallelDownloads, \* fetchTiles: options.maxParallelDownloads
    pc,                   \* fetchTiles: position of the async generator
    gen,                  \* generateTileURLs: loop variables and currentSubdomainIndex
    tiles,                \* promises created by fetchTile, in launch order
    pendingDownloads,     \* fetchTiles: the Set pendingDownloads, in insertion order
    race,                 \* the promise of the Promise.race being awaited
    requests,             \* next() calls of the caller not yet answered
    out,                  \* results handed to the caller, in order
    settled,              \* launch indices of settled fetches, in completion order
    crsCache,             \* crs.ts: keys of the Map crsCache
    network,              \* requests issued with fetch(), in order
    calls,                \* getCRSExtent: the calls made so far, in call order
    clears,               \* number of clearCRSCache calls so far
    run2,                 \* a second fetchTiles run on the same FetchTilesConfig
    transform             \* transformExtent: what proj4 does per corner, and the result

vars == <<extent, zoom, grid, tileRange, tilesConfig, config, maxParallelDownloads,
          pc, gen, tiles, pendingDownloads, race, requests, out, settled,
          crsCache, network, calls, clears, run2, transform>>

gridVars == <<extent, zoom, grid, tileRange>>
runVars == <<maxParallelDownloads, pc, gen, tiles, pendingDownloads, race,
             requests, out, settled>>
netVars == <<crsCache, network>>
otherVars == <<calls, clears, run2, transform>>

-----------------------------------------------------------------------------
(* Bounds *)

MaxZoom == 1          \* largest zoom level of a grid
CoordMax == 5         \* largest coordinate of a target extent
GridSizeMax == 4      \* largest width / height of a grid extent
MaxTiles == 5         \* most tiles of a configuration that is downloaded
MaxParallel == 3      \* largest options.maxParallelDownloads
MaxRequests == 2      \* most next() calls the caller leaves unanswered
MaxFairTiles == 2     \* most tiles of a configuration in the fair specification
MaxShift == 1         \* largest shift of a scenario extent, in zoom-13 tiles
MaxCalls == 3         \* most getCRSExtent calls
MaxClears == 1        \* most clearCRSCache calls

Min(a, b) == IF a <= b THEN a ELSE b
Max(a, b) == IF a >= b THEN a ELSE b

RECURSIVE Pow2(_)
Pow2(n) == IF n <= 0 THEN 1 ELSE 2 * Pow2(n - 1)

\* an "undefined" array element / value that was never produced
Undefined == [undefined |-> TRUE]

-----------------------------------------------------------------------------
(* src/src/tilegrid.ts *)

DefaultTileSize == 256

\* calculateResolutions: resolutions[z] for z = 0..maxZoom, from zoom 0
calculateResolutions(ext, maxZoom, tileSize) ==
    LET extentWidth == ext[3] - ext[1]
        extentHeight == ext[4] - ext[2]
        maxDimension == Max(extentWidth, extentHeight)
    IN  [k \in 1..(maxZoom + 1) |->
            [num |-> maxDimension, den |-> tileSize * Pow2(k - 1)]]

createXYZTileGrid_fromMinZoom(ext, minZoom, maxZoom, tileSize) ==
    [extent |-> ext, minZoom |-> minZoom, maxZoom |-> maxZoom,
     tileSize |-> tileSize,
     resolutions |-> [k \in 1..(maxZoom - minZoom + 1) |->
                        [num |-> IF ext[3] - ext[1] >= ext[4] - ext[2]
                                 THEN ext[3] - ext[1] ELSE ext[4] - ext[2],
                         den |-> tileSize * 2^(minZoom + k - 1)]]]

createXYZTileGrid(ext, minZoom, maxZoom, tileSize) ==
    [extent |-> ext, minZoom |-> minZoom, maxZoom |-> maxZoom,
     tileSize |-> tileSize,
     resolutions |-> calculateResolutions(ext, maxZoom, tileSize)]

ResolutionAt_clamped(g, z) ==
    IF z + 1 <= Len(g.resolutions) THEN g.resolutions[z + 1]
    ELSE g.resolutions[Len(g.resolutions)]

\* grid.resolutions[zoom]; an index outside the array reads undefined
ResolutionAt(g, z) ==
    IF z >= 0 /\ z + 1 <= Len(g.resolutions) THEN g.resolutions[z + 1] ELSE Undefined

\* !resolution : undefined or 0
Falsy(resolution) == resolution = Undefined \/ resolution.num = 0

ZoomError == [error |-> "ZoomOutOfRange"]

RECURSIVE GCD(_, _)
GCD(a, b) == IF b = 0 THEN a ELSE GCD(b, a % b)

\* Math.floor(d / (resolution * tileSize)), resolution > 0; the fraction
\* resolution * tileSize is reduced before d is divided by it
TileIndex(d, resolution, tileSize) ==
    LET divisor == resolution.num * tileSize
        g == GCD(divisor, resolution.den)
    IN  (d * (resolution.den \div g)) \div (divisor \div g)

TileCount_exclusive(minX, maxX, minY, maxY) == (maxX - minX) * (maxY - minY)

\* (maxX - minX + 1) * (maxY - minY + 1)
TileCount(minX, maxX, minY, maxY) == (maxX - minX + 1) * (maxY - minY + 1)

getTileRangeForExtent(ext, z, g) ==
    LET bboxMinX == ext[1]
        bboxMinY == ext[2]
        bboxMaxX == ext[3]
        bboxMaxY == ext[4]
        tilesAtZoom == Pow2(z)
        resolution == ResolutionAt(g, z)
        tileSize == g.tileSize
        originX == g.extent[1]
        originY == g.extent[4]
        tileMinX == TileIndex(bboxMinX - originX, resolution, tileSize)
        tileMaxX == TileIndex(bboxMaxX - originX, resolution, tileSize)
        tileMinY == TileIndex(originY - bboxMaxY, resolution, tileSize)
        tileMaxY == TileIndex(originY - bboxMinY, resolution, tileSize)
        minX == Max(0, Min(tileMinX, tileMaxX))
        maxX == Min(tilesAtZoom - 1, Max(tileMinX, tileMaxX))
        minY == Max(0, Min(tileMinY, tileMaxY))
        maxY == Min(tilesAtZoom - 1, Max(tileMinY, tileMaxY))
        count == TileCount(minX, maxX, minY, maxY)
    IN  IF Falsy(resolution) THEN ZoomError
        ELSE [zoom |-> z, minX |-> minX, maxX |-> maxX,
              minY |-> minY, maxY |-> maxY, count |-> count]

-----------------------------------------------------------------------------
(* src/src/crs.ts.  Coordinates are in model units: one unit of longitude  *)
(* is 90 degrees, the latitude samples -2..2 stand for -89.8, -60, 0, 60   *)
(* and 89.8 degrees, and the Web-Mercator half-width is 2.                 *)

OlExtentEPSG3857 == <<-2, -2, 2, 2>>

\* crs.match(/\d+/): the first run of digits of the identifier, if any
NumericMatch(crs) ==
    CASE crs = "EPSG:4326" -> "4326"
      [] crs = "EPSG:3857" -> "3857"
      [] crs = "3857" -> "3857"
      [] crs = "EPSG:9999" -> "9999"
      [] OTHER -> ""

CRSError == [error |-> "UnknownCRS"]

normalizeEPSGCode(crs) ==
    IF NumericMatch(crs) # "" THEN NumericMatch(crs) ELSE ""

\* what epsg.io answers for a numeric code: ok and the WGS84 bbox of the CRS
EpsgIo(code) ==
    CASE code = "4326" -> [ok |-> TRUE, bboxWGS84 |-> <<-2, -2, 2, 2>>]
      [] code = "3857" -> [ok |-> TRUE, bboxWGS84 |-> <<-2, -1, 2, 1>>]
      [] OTHER -> [ok |-> FALSE]

\* Mercator northing of a latitude sample: grows faster than linearly and
\* leaves the CRS extent above the highest latitude of the CRS
MercatorY(lat) ==
    CASE lat = -2 -> -4
      [] lat = -1 -> -1
      [] lat = 0 -> 0
      [] lat = 1 -> 1
      [] lat = 2 -> 4

\* proj4("EPSG:4326", targetCRS, corner)
proj4(targetCode, corner) ==
    IF targetCode = "3857" THEN <<corner[1], MercatorY(corner[2])>>
    ELSE corner

SeqMin(s) == CHOOSE m \in {s[k] : k \in 1..Len(s)} : \A k \in 1..Len(s) : m <= s[k]
SeqMax(s) == CHOOSE m \in {s[k] : k \in 1..Len(s)} : \A k \in 1..Len(s) : m >= s[k]

\* transformExtent(extent, "EPSG:4326", targetCRS): bounding box of the 4 corners
transformExtent(ext, targetCode) ==
    LET corners == << <<ext[1], ext[2]>>, <<ext[3], ext[2]>>,
                      <<ext[3], ext[4]>>, <<ext[1], ext[4]>> >>
        transformedCorners == [k \in 1..4 |-> proj4(targetCode, corners[k])]
        xs == [k \in 1..4 |-> transformedCorners[k][1]]
        ys == [k \in 1..4 |-> transformedCorners[k][2]]
    IN  <<SeqMin(xs), SeqMin(ys), SeqMax(xs), SeqMax(ys)>>

getCRSExtent_defaultExtent(crs) ==
    LET code == normalizeEPSGCode(crs)
    IN  IF code = "" \/ ~EpsgIo(code).ok \/ code = "3857" THEN OlExtentEPSG3857
        ELSE transformExtent(EpsgIo(code).bboxWGS84, code)

\* getCRSExtent with an empty cache
getCRSExtent(crs) ==
    LET code == normalizeEPSGCode(crs)
    IN  IF code = "" THEN CRSError
        ELSE IF ~EpsgIo(code).ok THEN CRSError
        ELSE IF code = "3857" THEN OlExtentEPSG3857
        ELSE transformExtent(EpsgIo(code).bboxWGS84, code)

\* the two requests of fetchCRSFromEPSG, issued together
EpsgRequests(code) ==
    << [url |-> <<"https://epsg.io/", code, ".json">>],
       [url |-> <<"https://epsg.io/", code, ".proj4">>] >>

\* the requests getCRSExtent(crs) issues when the cache holds the keys cache:
\* none when the identifier has no digits or the code is cached
CRSFetches(crs, cache) ==
    LET code == normalizeEPSGCode(crs)
    IN  IF code = "" \/ code \in cache THEN <<>> ELSE EpsgRequests(code)

\* the keys of crsCache after getCRSExtent(crs): a code is added when it was
\* fetched successfully
CacheAfter(crs, cache) ==
    LET code == normalizeEPSGCode(crs)
    IN  IF code = "" \/ code \in cache \/ ~EpsgIo(code).ok THEN cache
        ELSE cache \cup {code}

containsExtent(extent1, extent2) ==
    /\ extent1[1] <= extent2[1]
    /\ extent1[3] >= extent2[3]
    /\ extent1[2] <= extent2[2]
    /\ extent1[4] >= extent2[4]

-----------------------------------------------------------------------------
(* src/src/tiles.ts: processTilesConfig *)

\* a url template is a sequence of tokens: placeholders and literal text
PH(name) == [ph |-> name]
Num(n) == [num |-> n]
Str(s) == [str |-> s]

\* String.prototype.replace(pattern, value): the first occurrence only
Replace(url, token, value) ==
    IF \E k \in 1..Len(url) : url[k] = token
    THEN LET first == CHOOSE k \in 1..Len(url) :
                          url[k] = token /\ \A j \in 1..(k - 1) : url[j] # token
         IN  [url EXCEPT ![first] = value]
    ELSE url

Includes(url, token) == \E k \in 1..Len(url) : url[k] = token

\* getTileRangeForExtentAndZ(bbox, "EPSG:4326", targetCRS, zoom, grid)
getTileRangeForExtentAndZ(bbox, targetCRS, z, g) ==
    LET transformedExtent ==
            IF "EPSG:4326" = targetCRS THEN bbox
            ELSE transformExtent(bbox, normalizeEPSGCode(targetCRS))
    IN  getTileRangeForExtent(transformedExtent, z, g)

SumCounts_first(ranges) == ranges[1].count

\* tileRanges.map((range) => range.count).reduce((p, c) => p + c)
RECURSIVE SumCounts(_)
SumCounts(ranges) ==
    IF Len(ranges) = 1 THEN ranges[1].count
    ELSE ranges[1].count + SumCounts(Tail(ranges))

ZoomLevels_exclusive(minZoom, maxZoom) ==
    [k \in 1..(maxZoom - minZoom) |-> minZoom + k - 1]

\* for (let zoom = minZoom; zoom <= maxZoom; zoom++): the values of zoom
ZoomLevels(minZoom, maxZoom) ==
    [k \in 1..(maxZoom - minZoom + 1) |-> minZoom + k - 1]

processTilesConfig(c) ==
    LET ext == getCRSExtent(c.crs)
        tileGrid == createXYZTileGrid(ext, c.minZoom, c.maxZoom, DefaultTileSize)
        zooms == ZoomLevels(c.minZoom, c.maxZoom)
        tileRanges == [k \in 1..Len(zooms) |->
                          getTileRangeForExtentAndZ(c.bbox, c.crs, zooms[k], tileGrid)]
    IN  IF ext = CRSError THEN CRSError
        ELSE IF ~containsExtent(ext, c.bbox) THEN [error |-> "BoundingBoxOutOfExtent"]
        ELSE IF Includes(c.url, PH("s")) /\ c.subdomains = Undefined
             THEN [error |-> "MissingSubdomains"]
        ELSE IF \E k \in 1..Len(tileRanges) : tileRanges[k] = ZoomError THEN ZoomError
        ELSE IF Len(tileRanges) = 0 THEN [error |-> "TypeError"]
        ELSE [crs |-> c.crs, bbox |-> c.bbox, url |-> c.url,
              subdomains |-> c.subdomains, minZoom |-> c.minZoom,
              maxZoom |-> c.maxZoom,
              totalCount |-> SumCounts(tileRanges), tileRanges |-> tileRanges]

IsError(v) == "error" \in DOMAIN v

-----------------------------------------------------------------------------
(* src/src/tiles.ts: generateTileURLs, the generator inside fetchTiles *)

GenStart == [started |-> FALSE, done |-> FALSE, i |-> 0, x |-> 0, y |-> 0,
             currentSubdomainIndex |-> 0]

\* the three nested for loops, from the test of the innermost loop onwards:
\* the next (i, x, y) at which the body runs, or done
RECURSIVE Seek(_, _, _, _)
Seek(tileRanges, i, x, y) ==
    IF ~(i < Len(tileRanges)) THEN [done |-> TRUE, i |-> i, x |-> x, y |-> y]
    ELSE IF ~(x <= tileRanges[i + 1].maxX)
         THEN IF i + 1 < Len(tileRanges)
              THEN Seek(tileRanges, i + 1, tileRanges[i + 2].minX, tileRanges[i + 2].minY)
              ELSE [done |-> TRUE, i |-> i + 1, x |-> x, y |-> y]
    ELSE IF ~(y <= tileRanges[i + 1].maxY)
         THEN Seek(tileRanges, i, x + 1, tileRanges[i + 1].minY)
    ELSE [done |-> FALSE, i |-> i, x |-> x, y |-> y]

SubdomainIndex_stuck(c, current) == current

SubdomainIndex_always(c, current) ==
    IF c.subdomains # Undefined /\ Len(c.subdomains) > 0
    THEN (current + 1) % Len(c.subdomains)
    ELSE current + 1

\* body of the loops: the url and the subdomain cursor for tile (zoom, x, y)
SubdomainIndex(c, current) ==
    IF c.subdomains # Undefined /\ Len(c.subdomains) > 0
    THEN (current + 1) % Len(c.subdomains)
    ELSE current

TileURL(c, x, y, z, current) ==
    LET url == Replace(Replace(Replace(Replace(c.url, PH("x"), Num(x)),
                   PH("y"), Num(y)), PH("-y"), Num(Pow2(z) - 1 - y)), PH("z"), Num(z))
    IN  IF c.subdomains # Undefined /\ Len(c.subdomains) > 0
        THEN Replace(url, PH("s"), Str(c.subdomains[SubdomainIndex(c, current) + 1]))
        ELSE url

Descriptor_swapped(url, x, y, z) == [url |-> url, x |-> y, y |-> x, z |-> z]

\* yield { url, x, y, z: zoom }
Descriptor(url, x, y, z) == [url |-> url, x |-> x, y |-> y, z |-> z]

\* one next() of generateTileURLs: the new generator state and the value
\* yielded (Undefined when the generator returns)
GenNext(c, g) ==
    LET at == IF g.done THEN [done |-> TRUE, i |-> g.i, x |-> g.x, y |-> g.y]
              ELSE IF ~g.started
                   THEN IF Len(c.tileRanges) > 0
                        THEN Seek(c.tileRanges, 0, c.tileRanges[1].minX, c.tileRanges[1].minY)
                        ELSE [done |-> TRUE, i |-> 0, x |-> 0, y |-> 0]
              ELSE Seek(c.tileRanges, g.i, g.x, g.y + 1)
        z == c.tileRanges[at.i + 1].zoom
    IN  IF at.done
        THEN [gen |-> [started |-> TRUE, done |-> TRUE, i |-> at.i, x |-> at.x,
                       y |-> at.y, currentSubdomainIndex |-> g.currentSubdomainIndex],
              value |-> Undefined]
        ELSE [gen |-> [started |-> TRUE, done |-> FALSE, i |-> at.i, x |-> at.x,
                       y |-> at.y,
                       currentSubdomainIndex |-> SubdomainIndex(c, g.currentSubdomainIndex)],
              value |-> Descriptor(TileURL(c, at.x, at.y, z, g.currentSubdomainIndex),
                                       at.x, at.y, z)]

-----------------------------------------------------------------------------
(* Inputs of the tile-grid specification *)

\* Extents: minX <= maxX, minY <= maxY
Extents(lo, hi) ==
    {<<x1, y1, x2, y2>> : x1 \in lo..hi, y1 \in lo..hi, x2 \in lo..hi, y2 \in lo..hi}

ValidExtent(e) == e[1] <= e[3] /\ e[2] <= e[4]

GridExtents ==
    {<<0, 0, w, h>> : w \in {2, GridSizeMax}, h \in {2, GridSizeMax}}

TargetExtents == {e \in Extents(-2, CoordMax) : ValidExtent(e)}

TileSizes == {DefaultTileSize, 2 * DefaultTileSize}

\* arguments of createXYZTileGrid(extent, minZoom, maxZoom, tileSize)
GridArguments ==
    [extent : GridExtents, minZoom : {0, 1}, maxZoom : {MaxZoom - 1, MaxZoom},
     tileSize : TileSizes]

Grids ==
    {createXYZTileGrid(a.extent, a.minZoom, a.maxZoom, a.tileSize) : a \in GridArguments}

NoCall == [called |-> FALSE]

\* no getCRSExtent call, no second run, no transformExtent call
IdleOther ==
    /\ calls = <<>>
    /\ clears = 0
    /\ run2 = NoCall
    /\ transform = NoCall

IdleRun ==
    /\ tilesConfig = NoCall
    /\ config = NoCall
    /\ maxParallelDownloads = 0
    /\ pc = "idle"
    /\ gen = NoCall
    /\ tiles = <<>>
    /\ pendingDownloads = <<>>
    /\ race = NoCall
    /\ requests = 0
    /\ out = <<>>
    /\ settled = <<>>
    /\ crsCache = {}
    /\ network = <<>>
    /\ IdleOther

IdleGrid ==
    /\ extent = NoCall
    /\ zoom = 0
    /\ grid = NoCall
    /\ tileRange = NoCall

\* before createXYZTileGrid is called, grid holds its arguments
InitGrid ==
    /\ extent = NoCall
    /\ zoom = 0
    /\ grid \in GridArguments
    /\ tileRange = NoCall
    /\ IdleRun

CreateXYZTileGrid ==
    /\ grid \in GridArguments
    /\ grid' = createXYZTileGrid(grid.extent, grid.minZoom, grid.maxZoom, grid.tileSize)
    /\ UNCHANGED <<extent, zoom, tileRange, tilesConfig, config>>
    /\ UNCHANGED <<runVars, netVars, otherVars>>

CallGetTileRangeForExtent ==
    /\ grid \in Grids
    /\ tileRange = NoCall
    /\ \E e \in TargetExtents, z \in 0..(MaxZoom + 1) :
        /\ extent' = e
        /\ zoom' = z
        /\ tileRange' = getTileRangeForExtent(e, z, grid)
    /\ UNCHANGED <<grid, tilesConfig, config>>
    /\ UNCHANGED <<runVars, netVars, otherVars>>

NextGrid == CreateXYZTileGrid \/ CallGetTileRangeForExtent

SpecGrid == InitGrid /\ [][NextGrid]_vars

-----------------------------------------------------------------------------
(* The Web-Mercator scenario: the loop of processTilesConfig over the zoom *)
(* levels 11..13 for an extent already transformed to EPSG:3857.  One unit *)
(* is 2^-20 of the width of the world (about 38.2 m), so the extent        *)
(* +/-20037508.342789244 is +/-2^19 and a tile of zoom 13 is 128 units     *)
(* wide.  The corners of the Berlin extent are more than 1 km away from    *)
(* every tile boundary of zoom 13, so rounding them to units moves no      *)
(* corner into another tile.                                               *)

WebMercatorExtent == <<-524288, -524288, 524288, 524288>>

\* [1480549.2275505385, 6891041.723891583, 1491681.1766298658,
\*  6900190.041139638] in units: 38739.06, 180306.37, 39030.33, 180545.74
bboxBerlinMercator == <<38739, 180306, 39030, 180546>>

ScenarioMinZoom == 11
ScenarioMaxZoom == 13

\* width of a tile of ScenarioMaxZoom in units
ScenarioTile == (WebMercatorExtent[3] - WebMercatorExtent[1]) \div Pow2(ScenarioMaxZoom)

\* the Berlin extent, and the extents whose corners are moved by whole tiles
ScenarioExtents ==
    { <<bboxBerlinMercator[1] + a * ScenarioTile, bboxBerlinMercator[2] + b * ScenarioTile,
        bboxBerlinMercator[3] + c * ScenarioTile, bboxBerlinMercator[4] + d * ScenarioTile>> :
        a \in -MaxShift..MaxShift, b \in -MaxShift..MaxShift,
        c \in -MaxShift..MaxShift, d \in -MaxShift..MaxShift }

InitScenario ==
    /\ extent \in ScenarioExtents
    /\ zoom = ScenarioMinZoom
    /\ grid = createXYZTileGrid(WebMercatorExtent, ScenarioMinZoom, ScenarioMaxZoom,
                                DefaultTileSize)
    /\ tileRange = NoCall
    /\ tilesConfig = NoCall
    /\ config = [tileRanges |-> <<>>]
    /\ maxParallelDownloads = 0
    /\ pc = "ranges"
    /\ gen = NoCall
    /\ tiles = <<>>
    /\ pendingDownloads = <<>>
    /\ race = NoCall
    /\ requests = 0
    /\ out = <<>>
    /\ settled = <<>>
    /\ crsCache = {"3857"}
    /\ network = <<>>
    /\ IdleOther

\* body of the loop: tileRanges.push(getTileRangeForExtent(extent, zoom, grid))
PushTileRange ==
    /\ pc = "ranges"
    /\ zoom <= grid.maxZoom
    /\ tileRange' = getTileRangeForExtent(extent, zoom, grid)
    /\ config' = [tileRanges |-> Append(config.tileRanges, tileRange')]
    /\ zoom' = zoom + 1
    /\ UNCHANGED <<extent, grid, tilesConfig, runVars, netVars, otherVars>>

\* after the loop: totalCount is computed and the configuration is returned
ReturnTotalCount ==
    /\ pc = "ranges"
    /\ ~(zoom <= grid.maxZoom)
    /\ config' = [tileRanges |-> config.tileRanges,
                  totalCount |-> SumCounts(config.tileRanges)]
    /\ pc' = "returned"
    /\ UNCHANGED <<gridVars, tilesConfig, netVars, otherVars>>
    /\ UNCHANGED <<maxParallelDownloads, gen, tiles, pendingDownloads, race, requests,
                   out, settled>>

NextScenario == PushTileRange \/ ReturnTotalCount

SpecScenario == InitScenario /\ [][NextScenario]_vars

-----------------------------------------------------------------------------
(* Configurations *)

Templates == { <<PH("s"), PH("z"), PH("x"), PH("y")>>, <<PH("z"), PH("x"), PH("-y")>> }

Subdomains == { Undefined, <<>>, <<"a", "b">>, <<"a", "b", "c">> }

Bboxes == {e \in Extents(-2, 2) : ValidExtent(e)}

CRSs == {"EPSG:4326", "EPSG:3857", "EPSG:9999", "INVALID:CRS"}

TilesConfigs ==
    [crs : CRSs, bbox : Bboxes, url : Templates,
     subdomains : Subdomains, minZoom : 0..MaxZoom, maxZoom : 0..MaxZoom]

\* bounding boxes downloaded in Spec: one tile, a row of two tiles and a
\* block of two by two tiles at zoom 1
RunBboxes == { <<0, 0, 0, 0>>, <<-1, 0, 0, 0>>, <<-1, 0, 0, 1>> }

\* configurations downloaded in Spec: geographic CRS, at most MaxTiles tiles
RunConfigs ==
    {c \in [crs : {"EPSG:4326"}, bbox : RunBboxes,
            url : { <<PH("s"), PH("z"), PH("x"), PH("y")>> },
            subdomains : { <<"a", "b", "c">> },
            minZoom : 0..MaxZoom, maxZoom : 0..MaxZoom] :
        /\ c.minZoom <= c.maxZoom
        /\ ~IsError(processTilesConfig(c))
        /\ processTilesConfig(c).totalCount \in 1..MaxTiles}

-----------------------------------------------------------------------------
(* src/src/tiles.ts: fetchTile *)

Responses == [ok : BOOLEAN, type : {"image/png", "text/html"}]

StartsWithImage(type) == type = "image/png"

fetchTile_typeFirst(unfetchedTile, response) ==
    IF ~StartsWithImage(response.type)
    THEN [desc |-> unfetchedTile, state |-> "rejected", error |-> "NotAnImageError"]
    ELSE IF ~response.ok
    THEN [desc |-> unfetchedTile, state |-> "rejected", error |-> "HttpStatusError"]
    ELSE [desc |-> unfetchedTile, state |-> "fulfilled", error |-> ""]

\* the settlement of the promise returned by fetchTile for a response
fetchTile(unfetchedTile, response) ==
    IF ~response.ok
    THEN [desc |-> unfetchedTile, state |-> "rejected", error |-> "HttpStatusError"]
    ELSE IF ~StartsWithImage(response.type)
    THEN [desc |-> unfetchedTile, state |-> "rejected", error |-> "NotAnImageError"]
    ELSE [desc |-> unfetchedTile, state |-> "fulfilled", error |-> ""]

-----------------------------------------------------------------------------
(* src/src/tiles.ts: fetchTiles, called with the configuration returned   *)
(* by processTilesConfig.  The body of the async generator runs     *)
(* without interruption between two suspension points; fetches settle and  *)
(* the caller calls next() only while the generator is suspended: while it *)
(* awaits a race, or while no next() is unanswered (a next() that finds    *)
(* the generator at its start, at a yield or finished is served at once).  *)

Suspended ==
    \/ pc \in {"awaitFill", "awaitDrain"}
    \/ pc \in {"start", "yieldFill", "yieldDrain", "done"} /\ requests = 0

Remove(seq, k) == SelectSeq(seq, LAMBDA e : e # k)

\* Promise.race(pendingDownloads): settled at once by the first member, in
\* iteration order, that is already settled
PromiseRace(members) ==
    LET ready == {j \in 1..Len(members) : tiles[members[j]].state # "pending"}
        first == CHOOSE j \in ready : \A l \in ready : j <= l
    IN  IF ready = {}
        THEN [state |-> "pending", members |-> members, winner |-> 0]
        ELSE [state |-> tiles[members[first]].state, members |-> members,
              winner |-> members[first]]

Result(kind, k) == [kind |-> kind, k |-> k]

AtLimit_offByOne == Len(pendingDownloads) > maxParallelDownloads

\* pendingDownloads.size >= options.maxParallelDownloads
AtLimit == Len(pendingDownloads) >= maxParallelDownloads

DeleteTile_never(event, k) == pendingDownloads

DeleteTile_finally(event, k) ==
    IF event \in {"fulfilled", "rejected"} THEN Remove(pendingDownloads, k)
    ELSE pendingDownloads

DeleteTile_onYield(event, k) ==
    IF event = "yielded" THEN Remove(pendingDownloads, k) ELSE pendingDownloads

\* pendingDownloads after an event of promise k: the only removal is
\* tile.then(() => pendingDownloads.delete(tile)), which runs when the promise
\* is fulfilled; nothing is removed on rejection or when the value is yielded
DeleteTile(event, k) ==
    IF event = "fulfilled" THEN Remove(pendingDownloads, k) ELSE pendingDownloads

\* what a call Tiles.create(config) / processTilesConfig(config) leaves
ProcessTilesConfig ==
    /\ pc = "config"
    /\ config' = processTilesConfig(tilesConfig)
    /\ pc' = IF IsError(processTilesConfig(tilesConfig)) THEN "failed" ELSE "start"
    /\ network' = network \o CRSFetches(tilesConfig.crs, crsCache)
    /\ crsCache' = CacheAfter(tilesConfig.crs, crsCache)
    /\ UNCHANGED <<maxParallelDownloads, gen, tiles, pendingDownloads, race, requests, out, settled>>
    /\ UNCHANGED <<gridVars, tilesConfig, otherVars>>

Init ==
    /\ IdleGrid
    /\ tilesConfig \in RunConfigs
    /\ config = processTilesConfig(tilesConfig)
    /\ maxParallelDownloads \in 1..MaxParallel
    /\ pc = "start"
    /\ gen = GenStart
    /\ tiles = <<>>
    /\ pendingDownloads = <<>>
    /\ race = NoCall
    /\ requests = 0
    /\ out = <<>>
    /\ settled = <<>>
    /\ crsCache = CacheAfter(tilesConfig.crs, {})
    /\ network = CRSFetches(tilesConfig.crs, {})
    /\ IdleOther

\* the caller calls next()
Pull ==
    /\ Suspended
    /\ requests < MaxRequests
    /\ Len(out) + requests < MaxTiles + 2
    /\ requests' = requests + 1
    /\ UNCHANGED <<maxParallelDownloads, pc, gen, tiles, pendingDownloads, race, out, settled>>
    /\ UNCHANGED <<gridVars, tilesConfig, config, netVars, otherVars>>

\* the first next() starts the body
Start ==
    /\ pc = "start"
    /\ requests > 0
    /\ pc' = "forOf"
    /\ UNCHANGED <<maxParallelDownloads, gen, tiles, pendingDownloads, race, requests, out, settled>>
    /\ UNCHANGED <<gridVars, tilesConfig, config, netVars, otherVars>>

\* for (const unfetchedTile of generateTileURLs()) { fetchTile; add; then }
ForOf ==
    /\ pc = "forOf"
    /\ LET r == GenNext(config, gen)
       IN  /\ gen' = r.gen
           /\ IF r.value = Undefined
              THEN /\ pc' = "whileDrain"
                   /\ UNCHANGED <<tiles, pendingDownloads, network>>
              ELSE /\ tiles' = Append(tiles,
                          [desc |-> r.value, state |-> "pending", error |-> ""])
                   /\ network' = Append(network, [url |-> r.value.url])
                   /\ pendingDownloads' = Append(pendingDownloads, Len(tiles) + 1)
                   /\ pc' = "whileFill"
    /\ UNCHANGED <<maxParallelDownloads, race, requests, out, settled>>
    /\ UNCHANGED <<gridVars, tilesConfig, config, crsCache, otherVars>>

\* while (pendingDownloads.size >= options.maxParallelDownloads) yield Promise.race(...)
WhileFill ==
    /\ pc = "whileFill"
    /\ IF AtLimit
       THEN /\ race' = PromiseRace(pendingDownloads)
            /\ pc' = "awaitFill"
       ELSE /\ pc' = "forOf"
            /\ UNCHANGED race
    /\ UNCHANGED <<maxParallelDownloads, gen, tiles, pendingDownloads, requests, out, settled>>
    /\ UNCHANGED <<gridVars, tilesConfig, config, netVars, otherVars>>

WhileDrain_waitsOnEmpty ==
    /\ pc = "whileDrain"
    /\ race' = PromiseRace(pendingDownloads)
    /\ pc' = "awaitDrain"
    /\ UNCHANGED <<maxParallelDownloads, gen, tiles, pendingDownloads, requests, out, settled>>
    /\ UNCHANGED <<gridVars, tilesConfig, config, netVars, otherVars>>

\* while (pendingDownloads.size > 0) yield Promise.race(...); then return
WhileDrain ==
    /\ pc = "whileDrain"
    /\ IF Len(pendingDownloads) > 0
       THEN /\ race' = PromiseRace(pendingDownloads)
            /\ pc' = "awaitDrain"
            /\ UNCHANGED <<requests, out>>
       ELSE /\ pc' = "done"
            /\ out' = Append(out, Result("done", 0))
            /\ requests' = requests - 1
            /\ UNCHANGED race
    /\ UNCHANGED <<maxParallelDownloads, gen, tiles, pendingDownloads, settled>>
    /\ UNCHANGED <<gridVars, tilesConfig, config, netVars, otherVars>>

\* the awaited race is fulfilled: the value is yielded to the caller
Yield ==
    /\ pc \in {"awaitFill", "awaitDrain"}
    /\ race.state = "fulfilled"
    /\ out' = Append(out, Result("tile", race.winner))
    /\ requests' = requests - 1
    /\ pc' = IF pc = "awaitFill" THEN "yieldFill" ELSE "yieldDrain"
    /\ race' = NoCall
    /\ pendingDownloads' = DeleteTile("yielded", race.winner)
    /\ UNCHANGED <<maxParallelDownloads, gen, tiles, settled>>
    /\ UNCHANGED <<gridVars, tilesConfig, config, netVars, otherVars>>

Throw_skipsTile ==
    /\ pc \in {"awaitFill", "awaitDrain"}
    /\ race.state = "rejected"
    /\ out' = Append(out, Result("error", race.winner))
    /\ requests' = requests - 1
    /\ pc' = IF pc = "awaitFill" THEN "yieldFill" ELSE "yieldDrain"
    /\ race' = NoCall
    /\ pendingDownloads' = Remove(pendingDownloads, race.winner)
    /\ UNCHANGED <<maxParallelDownloads, gen, tiles, settled>>
    /\ UNCHANGED <<gridVars, tilesConfig, config, netVars, otherVars>>

\* the awaited race is rejected: the generator throws and is finished
Throw ==
    /\ pc \in {"awaitFill", "awaitDrain"}
    /\ race.state = "rejected"
    /\ out' = Append(out, Result("error", race.winner))
    /\ requests' = requests - 1
    /\ pc' = "done"
    /\ race' = NoCall
    /\ UNCHANGED <<maxParallelDownloads, gen, tiles, pendingDownloads, settled>>
    /\ UNCHANGED <<gridVars, tilesConfig, config, netVars, otherVars>>

Resume_eager ==
    /\ pc \in {"yieldFill", "yieldDrain"}
    /\ pc' = IF pc = "yieldFill" THEN "whileFill" ELSE "whileDrain"
    /\ UNCHANGED <<maxParallelDownloads, gen, tiles, pendingDownloads, race, requests, out, settled>>
    /\ UNCHANGED <<gridVars, tilesConfig, config, netVars, otherVars>>

\* a next() resumes the generator after a yield
Resume ==
    /\ pc \in {"yieldFill", "yieldDrain"}
    /\ requests > 0
    /\ pc' = IF pc = "yieldFill" THEN "whileFill" ELSE "whileDrain"
    /\ UNCHANGED <<maxParallelDownloads, gen, tiles, pendingDownloads, race, requests, out, settled>>
    /\ UNCHANGED <<gridVars, tilesConfig, config, netVars, otherVars>>

\* next() on the finished generator
AfterDone ==
    /\ pc = "done"
    /\ requests > 0
    /\ out' = Append(out, Result("done", 0))
    /\ requests' = requests - 1
    /\ UNCHANGED <<maxParallelDownloads, pc, gen, tiles, pendingDownloads, race, settled>>
    /\ UNCHANGED <<gridVars, tilesConfig, config, netVars, otherVars>>

\* the fetch of tile k settles; tile.then(() => pendingDownloads.delete(tile))
\* runs on fulfilment only; a pending race is settled by the first settlement
Settle(k, response) ==
    /\ Suspended
    /\ k \in 1..Len(tiles)
    /\ tiles[k].state = "pending"
    /\ LET result == fetchTile(tiles[k].desc, response)
       IN  /\ tiles' = [tiles EXCEPT ![k] = result]
           /\ pendingDownloads' = DeleteTile(result.state, k)
           /\ race' = IF race # NoCall /\ race.state = "pending"
                      THEN [race EXCEPT !.state = result.state, !.winner = k]
                      ELSE race
    /\ settled' = Append(settled, k)
    /\ UNCHANGED <<maxParallelDownloads, pc, gen, requests, out>>
    /\ UNCHANGED <<gridVars, tilesConfig, config, netVars, otherVars>>

Next ==
    \/ Pull
    \/ Start
    \/ ForOf
    \/ WhileFill
    \/ WhileDrain
    \/ Yield
    \/ Throw
    \/ Resume
    \/ AfterDone
    \/ \E k \in 1..MaxTiles, response \in Responses : Settle(k, response)

Spec == Init /\ [][Next]_vars

\* the event loop runs every job that is ready, the caller keeps calling
\* next(), and every request to the tile server is answered
GeneratorStep ==
    Start \/ ForOf \/ WhileFill \/ WhileDrain \/ Yield \/ Throw \/ Resume \/ AfterDone

SettleAny == \E k \in 1..MaxTiles, response \in Responses : Settle(k, response)

\* the same runs, for configurations of at most MaxFairTiles tiles
InitFair ==
    /\ Init
    /\ config.totalCount <= MaxFairTiles

FairSpec ==
    /\ InitFair
    /\ [][Next]_vars
    /\ WF_vars(Pull)
    /\ WF_vars(GeneratorStep)
    /\ WF_vars(SettleAny)

-----------------------------------------------------------------------------
(* Configuration and enumeration for every TilesConfig: fetchTiles is run  *)
(* with a limit no configuration reaches, so that the first next() runs    *)
(* the for...of loop over generateTileURLs to its end.                     *)

\* the cache when processTilesConfig is called: empty, or filled by
\* preloadCommonCRS()
CacheStates == { {}, {"4326", "3857"} }

NoLimit == 1 + Cardinality(0..MaxZoom) * Pow2(MaxZoom) * Pow2(MaxZoom)

InitConfig ==
    /\ IdleGrid
    /\ tilesConfig \in {c \in TilesConfigs : c.minZoom <= c.maxZoom}
    /\ config = NoCall
    /\ maxParallelDownloads = NoLimit
    /\ pc = "config"
    /\ gen = GenStart
    /\ tiles = <<>>
    /\ pendingDownloads = <<>>
    /\ race = NoCall
    /\ requests = 0
    /\ out = <<>>
    /\ settled = <<>>
    /\ crsCache \in CacheStates
    /\ network = <<>>
    /\ IdleOther

NextConfig ==
    \/ ProcessTilesConfig
    \/ Pull
    \/ Start
    \/ ForOf
    \/ WhileFill
    \/ WhileDrain

SpecConfig == InitConfig /\ [][NextConfig]_vars

-----------------------------------------------------------------------------
(* Properties of fetchTiles *)

Launched == 1..Len(tiles)
InFlight == {k \in Launched : tiles[k].state = "pending"}
Rejected == {k \in Launched : tiles[k].state = "rejected"}
Yielded == {i \in 1..Len(out) : out[i].kind = "tile"}
Failures == {i \in 1..Len(out) : out[i].kind = "error"}
\* the caller has been told that the sequence ended without a failure
EndedNormally ==
    \E i \in 1..Len(out) : out[i].kind = "done" /\ \A j \in 1..i : out[j].kind # "error"
\* position of fetch k in the completion order
SettledAt(k) == CHOOSE n \in 1..Len(settled) : settled[n] = k

\* C1: the number of fetches launched and not yet settled never exceeds
\* maxParallelDownloads
C1_AtMostNInFlight == Cardinality(InFlight) <= maxParallelDownloads

C1_Witness ==
    /\ maxParallelDownloads >= 2
    /\ Cardinality(InFlight) = maxParallelDownloads
    /\ Len(tiles) > maxParallelDownloads

\* C2: when every fetch succeeds and the caller consumes the sequence to its
\* end, the number of tiles yielded equals config.totalCount
C2_AllTilesYielded ==
    (pc = "done" /\ EndedNormally /\ Rejected = {})
        => Cardinality(Yielded) = config.totalCount

C5_LaunchOnlyOnPull ==
    [][Len(tiles') > Len(tiles) => (requests > 0 /\ ~Suspended)]_vars

C5_Witness ==
    /\ pc = "yieldFill"
    /\ requests = 0
    /\ Len(pendingDownloads) < maxParallelDownloads - 1
    /\ Len(tiles) < config.totalCount

\* C6: tiles are yielded in completion order: a tile yielded earlier settled
\* no later than a tile yielded later
C6_CompletionOrder ==
    \A i \in Yielded : \A j \in Yielded :
        i < j => SettledAt(out[i].k) <= SettledAt(out[j].k)

C6_Witness ==
    \E i \in Yielded : \E j \in Yielded : i < j /\ out[i].k > out[j].k

\* C7: the failure propagated is that of the fetch that failed first in
\* completion order
C7_FirstFailureByCompletion ==
    \A i \in Failures : \A k \in Rejected : SettledAt(out[i].k) <= SettledAt(k)

\* C9: fetches are launched in enumeration order: ascending zoom, then
\* ascending x, then ascending y
Precedes(d, e) ==
    \/ d.z < e.z
    \/ d.z = e.z /\ d.x < e.x
    \/ d.z = e.z /\ d.x = e.x /\ d.y < e.y

C9_EnumerationOrder ==
    \A a \in Launched : \A b \in Launched :
        a < b => Precedes(tiles[a].desc, tiles[b].desc)

C9_Witness ==
    \E a \in Launched : \E b \in Launched : \E c \in Launched : \E d \in Launched :
        /\ a < b /\ b < c /\ c < d
        /\ tiles[a].desc.z < tiles[b].desc.z
        /\ tiles[b].desc.z = tiles[c].desc.z /\ tiles[b].desc.x = tiles[c].desc.x
        /\ tiles[c].desc.x < tiles[d].desc.x

-----------------------------------------------------------------------------
(* Properties of the tile grid and of the configuration *)

IsTileRange(r) == "minX" \in DOMAIN r

\* C8: the indices returned by getTileRangeForExtent satisfy
\* 0 <= minX <= maxX <= 2^zoom - 1 and 0 <= minY <= maxY <= 2^zoom - 1
C8_RangeInsideGrid ==
    IsTileRange(tileRange) =>
        /\ 0 <= tileRange.minX /\ tileRange.minX <= tileRange.maxX
        /\ tileRange.maxX <= Pow2(zoom) - 1
        /\ 0 <= tileRange.minY /\ tileRange.minY <= tileRange.maxY
        /\ tileRange.maxY <= Pow2(zoom) - 1

InRange(d, r) ==
    /\ d.z = r.zoom
    /\ r.minX <= d.x /\ d.x <= r.maxX
    /\ r.minY <= d.y /\ d.y <= r.maxY

\* C10: for a configuration produced by processTilesConfig, the enumeration
\* consumed to its end produces exactly config.totalCount descriptors, each
\* inside the TileRange of its zoom, and each (z, x, y) once
C10_EnumerationMatchesTotalCount ==
    (~IsError(config) /\ config # NoCall /\ gen # NoCall /\ gen.done) =>
        /\ Len(tiles) = config.totalCount
        /\ \A a \in Launched :
              /\ tiles[a].desc.z \in config.minZoom..config.maxZoom
              /\ \E n \in 1..Len(config.tileRanges) :
                    InRange(tiles[a].desc, config.tileRanges[n])
        /\ \A a \in Launched : \A b \in Launched :
              a # b => <<tiles[a].desc.z, tiles[a].desc.x, tiles[a].desc.y>>
                        # <<tiles[b].desc.z, tiles[b].desc.x, tiles[b].desc.y>>

\* processTilesConfig has returned a FetchTilesConfig
Returned == config # NoCall /\ ~IsError(config)

RECURSIVE SumTo(_, _)
SumTo(ranges, n) == IF n = 0 THEN 0 ELSE SumTo(ranges, n - 1) + ranges[n].count

\* C11: in every FetchTilesConfig returned by processTilesConfig each
\* TileRange has count = (maxX - minX + 1) * (maxY - minY + 1), and totalCount
\* is the sum of count over all entries of tileRanges
C11_CountsAddUp ==
    Returned =>
        /\ \A n \in 1..Len(config.tileRanges) :
              LET r == config.tileRanges[n]
              IN  r.count = (r.maxX - r.minX + 1) * (r.maxY - r.minY + 1)
        /\ config.totalCount = SumTo(config.tileRanges, Len(config.tileRanges))

C11_Witness ==
    /\ Returned
    /\ Len(config.tileRanges) = 2
    /\ config.tileRanges[1].count = 1
    /\ config.tileRanges[2].count = 4
    /\ config.totalCount = 5

\* C12: for minZoom <= maxZoom the configuration returned has exactly
\* maxZoom - minZoom + 1 TileRange entries, the i-th (from 0) with
\* zoom = minZoom + i, and its minZoom and maxZoom are those of the input
C12_OneRangePerZoom ==
    (Returned /\ tilesConfig.minZoom <= tilesConfig.maxZoom) =>
        /\ Len(config.tileRanges) = tilesConfig.maxZoom - tilesConfig.minZoom + 1
        /\ \A i \in 0..(Len(config.tileRanges) - 1) :
              config.tileRanges[i + 1].zoom = tilesConfig.minZoom + i
        /\ config.minZoom = tilesConfig.minZoom
        /\ config.maxZoom = tilesConfig.maxZoom

C12_Witness ==
    /\ Returned
    /\ tilesConfig.minZoom < tilesConfig.maxZoom
    /\ Len(config.tileRanges) >= 2
    /\ config.tileRanges[2].zoom = tilesConfig.minZoom + 1

\* C13: for the Web-Mercator grid (tile size 256) and the Berlin bbox
\* transformed to EPSG:3857, the tile ranges computed for zooms 11, 12 and 13
\* are exactly 3 entries whose counts sum to totalCount = 15
C13_BerlinFifteenTiles ==
    (extent = bboxBerlinMercator /\ pc = "returned") =>
        /\ Len(config.tileRanges) = 3
        /\ \A n \in 1..3 : config.tileRanges[n].zoom = 10 + n
        /\ config.totalCount = 15
        /\ config.tileRanges[1].count + config.tileRanges[2].count
              + config.tileRanges[3].count = 15

C13_Witness ==
    /\ extent = bboxBerlinMercator
    /\ pc = "returned"
    /\ grid.extent = WebMercatorExtent /\ grid.tileSize = 256
    /\ config.tileRanges[1].minX = 1099 /\ config.tileRanges[1].maxX = 1100
    /\ config.tileRanges[1].count = 2
    /\ config.tileRanges[2].count = 4
    /\ config.tileRanges[3].count = 9

\* processTilesConfig has been called and has returned or thrown
Called == config # NoCall

NoSubdomainsForS ==
    Includes(tilesConfig.url, PH("s")) /\ tilesConfig.subdomains = Undefined

\* C14: processTilesConfig fails with MissingSubdomains whenever the url
\* template contains {s} and no subdomain list was supplied; no
\* FetchTilesConfig exists for such input and nothing is enumerated
C14_MissingSubdomainsRejected ==
    (Called /\ NoSubdomainsForS) =>
        /\ config = [error |-> "MissingSubdomains"]
        /\ pc = "failed"
        /\ tiles = <<>>

\* C15: processTilesConfig fails with BoundingBoxOutOfExtent exactly when
\* the bbox transformed into the target CRS is not contained in the extent
\* of the CRS; every bbox it accepts has its transformed extent inside
C15_TransformedBboxInsideExtent ==
    (Called /\ getCRSExtent(tilesConfig.crs) # CRSError) =>
        LET inside == containsExtent(getCRSExtent(tilesConfig.crs),
                          transformExtent(tilesConfig.bbox,
                                          normalizeEPSGCode(tilesConfig.crs)))
        IN  /\ Returned => inside
            /\ (config = [error |-> "BoundingBoxOutOfExtent"]) <=> ~inside

\* C16: processTilesConfig fails with UnknownCRS and returns no
\* configuration whenever the crs identifier cannot be resolved: an
\* identifier without a code ('INVALID:CRS') or a code epsg.io does not know
C16_UnknownCRSRejected ==
    (Called /\ tilesConfig.crs \in {"INVALID:CRS", "EPSG:9999"}) =>
        /\ config = [error |-> "UnknownCRS"]
        /\ pc = "failed"
        /\ tiles = <<>>

C16_Witness ==
    /\ Called
    /\ tilesConfig.crs = "EPSG:9999"
    /\ network = EpsgRequests("9999")
    /\ config = CRSError

\* C17: when the url contains {s} and no subdomains are supplied, the
\* configuration fails with MissingSubdomains before any network request
\* has been issued (no tile GET, no request to resolve the CRS)
C17_NoNetworkBeforeMissingSubdomains ==
    (Called /\ config = [error |-> "MissingSubdomains"]) => network = <<>>

\* position of {s} in the url template
PosOfS == CHOOSE p \in 1..Len(config.url) : config.url[p] = PH("s")

NonEmptySubdomains ==
    Returned /\ config.subdomains # Undefined /\ config.subdomains # <<>>

\* C18: with a subdomain list of length L > 0 the k-th descriptor
\* enumerated (k = 1, 2, ...) uses subdomains[k mod L] for {s}: the cursor
\* starts at 0 and advances by one modulo L before each substitution
C18_SubdomainRotation ==
    NonEmptySubdomains =>
        LET L == Len(config.subdomains)
        IN  /\ gen.currentSubdomainIndex = Len(tiles) % L
            /\ Includes(config.url, PH("s")) =>
                  \A k \in 1..Len(tiles) :
                      tiles[k].desc.url[PosOfS] = Str(config.subdomains[(k % L) + 1])

C18_Witness ==
    /\ NonEmptySubdomains
    /\ config.subdomains = <<"a", "b", "c">>
    /\ Len(tiles) = 5
    /\ [k \in 1..5 |-> tiles[k].desc.url[1]]
          = <<Str("b"), Str("c"), Str("a"), Str("b"), Str("c")>>

\* the descriptors (z, x, y) of a TileRange
TilesOf(r) == {<<r.zoom, x, y>> : x \in r.minX..r.maxX, y \in r.minY..r.maxY}

\* C19: with an empty or absent subdomain list the rotation cursor stays at
\* 0, {s} is not replaced by any subdomain, and every descriptor of every
\* TileRange is produced
C19_NoRotationWithoutSubdomains ==
    (Returned /\ (config.subdomains = Undefined \/ config.subdomains = <<>>)) =>
        /\ gen.currentSubdomainIndex = 0
        /\ \A k \in 1..Len(tiles) :
              /\ \A p \in 1..Len(tiles[k].desc.url) : "str" \notin DOMAIN tiles[k].desc.url[p]
              /\ Includes(config.url, PH("s")) => tiles[k].desc.url[PosOfS] = PH("s")
        /\ gen.done =>
              \A n \in 1..Len(config.tileRanges) : \A t \in TilesOf(config.tileRanges[n]) :
                  \E k \in 1..Len(tiles) :
                      <<tiles[k].desc.z, tiles[k].desc.x, tiles[k].desc.y>> = t

C19_Witness ==
    /\ Returned
    /\ config.subdomains = <<>>
    /\ Includes(config.url, PH("s"))
    /\ gen.done
    /\ Len(tiles) = 5

\* what the claim says of a response: status first, then content type
Outcome(d, r) ==
    IF ~r.ok THEN [desc |-> d, state |-> "rejected", error |-> "HttpStatusError"]
    ELSE IF r.type # "image/png"
    THEN [desc |-> d, state |-> "rejected", error |-> "NotAnImageError"]
    ELSE [desc |-> d, state |-> "fulfilled", error |-> ""]

\* C20: fetchTile fails with HttpStatusError whenever the status is not a
\* success (whatever the content type), fails with NotAnImageError when the
\* status is a success and the content type does not begin with image/, and
\* otherwise returns a tile with the url, x, y, z of the input descriptor
C20_StatusThenContentType ==
    [][\A k \in 1..Len(tiles) : \A r \in Responses :
          Settle(k, r) => tiles'[k] = Outcome(tiles[k].desc, r)]_vars

C20_Witness ==
    \E a \in Launched : \E b \in Launched : \E c \in Launched :
        /\ tiles[a].state = "rejected" /\ tiles[a].error = "HttpStatusError"
        /\ tiles[b].state = "rejected" /\ tiles[b].error = "NotAnImageError"
        /\ tiles[c].state = "fulfilled"
        /\ tiles[c].desc.url = network[Len(network) - Len(tiles) + c].url

-----------------------------------------------------------------------------
(* Properties of the resolution table and of the zoom check *)

HasTable(g) == "resolutions" \in DOMAIN g

\* C21: the table built by createXYZTileGrid has one entry for each zoom
\* 0..maxZoom, resolutions[z] = maxDimension / (tileSize * 2^z), so every
\* entry is half of the entry before it, and the table does not depend on
\* the minZoom that was passed
C21_ResolutionTable ==
    HasTable(grid) =>
        LET maxDimension == Max(grid.extent[3] - grid.extent[1],
                                grid.extent[4] - grid.extent[2])
            r == grid.resolutions
        IN  /\ DOMAIN r = 1..(grid.maxZoom + 1)
            /\ \A z \in 0..grid.maxZoom :
                   r[z + 1].num * (grid.tileSize * Pow2(z)) = maxDimension * r[z + 1].den
            /\ \A z \in 0..(grid.maxZoom - 1) :
                   2 * r[z + 2].num * r[z + 1].den = r[z + 1].num * r[z + 2].den
            /\ \A m \in 0..(MaxZoom + 1) :
                   createXYZTileGrid(grid.extent, m, grid.maxZoom, grid.tileSize).resolutions = r

C21_Witness ==
    /\ HasTable(grid)
    /\ grid.minZoom = 1
    /\ grid.maxZoom >= 1
    /\ grid.tileSize = 2 * DefaultTileSize
    /\ grid.extent[3] - grid.extent[1] < grid.extent[4] - grid.extent[2]

\* C24: getTileRangeForExtent fails with ZoomOutOfRange, and returns no
\* TileRange, whenever the requested zoom is larger than the grid's maxZoom
C24_ZoomBeyondTable ==
    (HasTable(grid) /\ tileRange # NoCall /\ zoom > grid.maxZoom) =>
        tileRange = ZoomError

C24_Witness ==
    /\ HasTable(grid)
    /\ tileRange = ZoomError
    /\ zoom = grid.maxZoom + 1
    /\ grid.minZoom <= grid.maxZoom

-----------------------------------------------------------------------------
(* src/src/crs.ts: getCRSExtent as the caller sees it.  A call runs up to  *)
(* its first await (normalize, cache check, the two requests of            *)
(* fetchCRSFromEPSG) in one step and finishes in a later step, when both   *)
(* responses have arrived; other calls and clearCRSCache may come between. *)

\* an identifier crs: string | number
StringId(s) == [string |-> s]
NumberId(n) == [number |-> n]

\* typeof crs === "number"
IsNumber(crs) == "number" \in DOMAIN crs

\* normalizeEPSGCode(crs) for either type: `EPSG:${crs}` for a number
normalizeIdentifier(crs) ==
    IF IsNumber(crs) THEN ToString(crs.number) ELSE normalizeEPSGCode(crs.string)

Identifiers ==
    {StringId(s) : s \in {"EPSG:3857", "3857", "EPSG:9999", "INVALID:CRS"}}
        \cup {NumberId(3857)}

\* argument lists of preloadCommonCRS: the default, and one code given twice
PreloadCodes ==
    { <<NumberId(4326), NumberId(3857)>>, <<NumberId(3857), NumberId(3857)>> }

CacheHit_never(code, cache) == FALSE

\* crsCache.has(normalized)
CacheHit(code, cache) == code \in cache

\* the extent computed after a successful fetch
FetchedExtent(code) ==
    IF code = "3857" THEN OlExtentEPSG3857
    ELSE transformExtent(EpsgIo(code).bboxWGS84, code)

\* crsCache.get(normalized)!.extent: the extent stored by crsCache.set
CachedExtent(code) == FetchedExtent(code)

\* getCRSExtent(crs) up to its first await, from the calls and requests st
StartGetCRSExtent(st, crs) ==
    LET code == normalizeIdentifier(crs)
    IN  IF code = ""
        THEN [calls |-> Append(st.calls,
                  [crs |-> crs, code |-> code, epoch |-> clears, requested |-> FALSE,
                   state |-> "failed", result |-> CRSError, done |-> clears]),
              network |-> st.network]
        ELSE IF CacheHit(code, crsCache)
        THEN [calls |-> Append(st.calls,
                  [crs |-> crs, code |-> code, epoch |-> clears, requested |-> FALSE,
                   state |-> "returned", result |-> CachedExtent(code), done |-> clears]),
              network |-> st.network]
        ELSE [calls |-> Append(st.calls,
                  [crs |-> crs, code |-> code, epoch |-> clears, requested |-> TRUE,
                   state |-> "fetching", result |-> NoCall, done |-> -1]),
              network |-> st.network \o EpsgRequests(code)]

GetCRSExtent(crs) ==
    /\ Len(calls) < MaxCalls
    /\ LET st == StartGetCRSExtent([calls |-> calls, network |-> network], crs)
       IN  calls' = st.calls /\ network' = st.network
    /\ UNCHANGED <<crsCache, clears, run2, transform, gridVars, tilesConfig, config, runVars>>

\* preloadCommonCRS(codes): Promise.all(codes.map(getCRSExtent)) starts every
\* call before any of them continues
PreloadCommonCRS(codes) ==
    /\ Len(calls) + Len(codes) <= MaxCalls
    /\ LET st1 == StartGetCRSExtent([calls |-> calls, network |-> network], codes[1])
           st2 == StartGetCRSExtent(st1, codes[2])
       IN  calls' = st2.calls /\ network' = st2.network
    /\ UNCHANGED <<crsCache, clears, run2, transform, gridVars, tilesConfig, config, runVars>>

\* call i continues after await fetchCRSFromEPSG: both responses are there
FetchCRSReturns(i) ==
    /\ calls[i].state = "fetching"
    /\ LET code == calls[i].code
       IN  IF EpsgIo(code).ok
           THEN /\ calls' = [calls EXCEPT ![i].state = "returned",
                                          ![i].result = FetchedExtent(code),
                                          ![i].done = clears]
                /\ crsCache' = crsCache \cup {code}
           ELSE /\ calls' = [calls EXCEPT ![i].state = "failed",
                                          ![i].result = CRSError,
                                          ![i].done = clears]
                /\ UNCHANGED crsCache
    /\ UNCHANGED <<network, clears, run2, transform, gridVars, tilesConfig, config, runVars>>

ClearCRSCache ==
    /\ clears < MaxClears
    /\ crsCache' = {}
    /\ clears' = clears + 1
    /\ UNCHANGED <<network, calls, run2, transform, gridVars, tilesConfig, config, runVars>>

InitCRS == IdleGrid /\ IdleRun

NextCRS ==
    \/ \E crs \in Identifiers : GetCRSExtent(crs)
    \/ \E codes \in PreloadCodes : PreloadCommonCRS(codes)
    \/ \E i \in 1..Len(calls) : FetchCRSReturns(i)
    \/ ClearCRSCache

SpecCRS == InitCRS /\ [][NextCRS]_vars

-----------------------------------------------------------------------------
(* Properties of the CRS cache *)

\* the requests issued in the step, as positions of network'
NewRequests == (Len(network) + 1)..Len(network')

\* C22: once a getCRSExtent call has succeeded for a code, every call made
\* later with an identifier that normalizes to the same code returns the
\* same extent at once and issues no request to epsg.io for that code, as
\* long as clearCRSCache has not been called since
C22_CacheReuse ==
    [][\A k \in (Len(calls) + 1)..Len(calls') : \A j \in 1..Len(calls) :
          (/\ calls[j].state = "returned"
           /\ calls[j].done = clears
           /\ normalizeIdentifier(calls'[k].crs) = calls[j].code)
          => /\ calls'[k].state = "returned"
             /\ calls'[k].result = calls[j].result
             /\ \A n \in NewRequests : network'[n].url[2] # calls[j].code]_vars

C22_Witness ==
    \E j \in 1..Len(calls) : \E k \in 1..Len(calls) : \E l \in 1..Len(calls) :
        /\ j < k /\ k < l
        /\ calls[j].crs = StringId("EPSG:3857") /\ calls[j].requested
        /\ calls[j].state = "returned"
        /\ calls[k].crs = NumberId(3857) /\ calls[k].epoch = calls[j].done
        /\ calls[k].state = "returned" /\ ~calls[k].requested
        /\ calls[l].crs = StringId("3857") /\ calls[l].epoch > calls[j].done
        /\ calls[l].requested

\* C30: for each CRS code, at most one getCRSExtent call issues the pair of
\* epsg.io requests between two clearCRSCache calls
C30_OneFetchPerCode ==
    \A i \in 1..Len(calls) : \A j \in 1..Len(calls) :
        (/\ calls[i].requested /\ calls[j].requested
         /\ calls[i].code = calls[j].code
         /\ calls[i].epoch = calls[j].epoch)
        => i = j

-----------------------------------------------------------------------------
(* Termination of fetchTiles *)

\* C23: when every launched fetch settles and the caller keeps calling
\* next(), fetchTiles finishes, by returning or by throwing the failure of
\* a fetch, and it never awaits a race over an empty working set
C23_Terminates ==
    /\ <>(pc = "done")
    /\ [](pc \in {"awaitFill", "awaitDrain"} => Len(race.members) > 0)

C23_Witness ==
    /\ pc = "done"
    /\ EndedNormally
    /\ Len(tiles) >= 2
    /\ gen.done
    /\ pendingDownloads = <<>>
    /\ maxParallelDownloads >= 2

-----------------------------------------------------------------------------
(* src/src/crs.ts: transformExtent when proj4 does not transform every     *)
(* corner.  proj4 is a library outside the repository; for a corner it     *)
(* cannot transform it may throw, return coordinates that are NaN, or      *)
(* return a point without coordinates (the case the filter on undefined    *)
(* is written for).  Each corner has one of these outcomes.                *)

CornerOutcomes == {"ok", "undefined", "NaN", "throws"}

TransformError == [error |-> "TransformationFailure"]
ProjError == [error |-> "ProjectionError"]

\* Math.min / Math.max over a list with a NaN
NaNExtent == [nan |-> TRUE]

SetMin(S) == CHOOSE m \in S : \A x \in S : m <= x
SetMax(S) == CHOOSE m \in S : \A x \in S : m >= x

\* transformExtent(extent, "EPSG:4326", targetCRS) when proj4 has the outcome
\* outcome[k] on corner k
transformCorners(ext, targetCode, outcome) ==
    LET corners == << <<ext[1], ext[2]>>, <<ext[3], ext[2]>>,
                      <<ext[3], ext[4]>>, <<ext[1], ext[4]>> >>
        transformedCorners == [k \in 1..4 |-> proj4(targetCode, corners[k])]
        \* .filter(x => x !== undefined)
        kept == {k \in 1..4 : outcome[k] # "undefined"}
        xs == {transformedCorners[k][1] : k \in kept}
        ys == {transformedCorners[k][2] : k \in kept}
    IN  IF \E k \in 1..4 : outcome[k] = "throws" THEN ProjError
        ELSE IF kept = {} THEN TransformError
        ELSE IF \E k \in kept : outcome[k] = "NaN" THEN NaNExtent
        ELSE [extent |-> <<SetMin(xs), SetMin(ys), SetMax(xs), SetMax(ys)>>]

CallTransformExtent ==
    /\ transform = NoCall
    /\ \E e \in Bboxes, code \in {"4326", "3857"}, outcome \in [1..4 -> CornerOutcomes] :
        /\ extent' = e
        /\ transform' = [crs |-> code, corners |-> outcome,
                         result |-> transformCorners(e, code, outcome)]
    /\ UNCHANGED <<zoom, grid, tileRange, tilesConfig, config, runVars, netVars>>
    /\ UNCHANGED <<calls, clears, run2>>

InitTransform == IdleGrid /\ IdleRun

NextTransform == CallTransformExtent

SpecTransform == InitTransform /\ [][NextTransform]_vars

\* C25: transformExtent fails when any one of the four corners fails to
\* transform; it returns no extent computed from the other corners
C25_AnyCornerFails ==
    (transform # NoCall /\ \E k \in 1..4 : transform.corners[k] # "ok")
        => IsError(transform.result)

-----------------------------------------------------------------------------
(* src/src/tiles.ts: a second fetchTiles(config) run on the same           *)
(* FetchTilesConfig (tiles.fetch() called twice).  The call may come at    *)
(* any time, before, during or after the first run.  Of the second run     *)
(* only the enumeration is kept: its own next() calls and settlements      *)
(* decide when it takes its next descriptor, so it may take one at any     *)
(* time.                                                                   *)

\* fetchTiles(config) is called again: generateTileURLs of that call starts
\* with its own currentSubdomainIndex = 0
Start2 ==
    /\ run2 = NoCall
    /\ run2' = [gen |-> GenStart, tiles |-> <<>>]
    /\ UNCHANGED <<gridVars, tilesConfig, config, runVars, netVars>>
    /\ UNCHANGED <<calls, clears, transform>>

Launch2_sharedCursor ==
    /\ run2 # NoCall
    /\ gen # NoCall
    /\ ~run2.gen.done
    /\ LET r == GenNext(config, [run2.gen EXCEPT
                     !.currentSubdomainIndex = gen.currentSubdomainIndex])
       IN  /\ r.value # Undefined
           /\ run2' = [gen |-> r.gen, tiles |-> Append(run2.tiles, r.value)]
           /\ network' = Append(network, [url |-> r.value.url])
    /\ UNCHANGED <<gridVars, tilesConfig, config, runVars, crsCache>>
    /\ UNCHANGED <<calls, clears, transform>>

\* the for...of of the second run takes its next descriptor and fetches it
Launch2 ==
    /\ run2 # NoCall
    /\ ~run2.gen.done
    /\ LET r == GenNext(config, run2.gen)
       IN  /\ run2' = [gen |-> r.gen,
                       tiles |-> IF r.value = Undefined THEN run2.tiles
                                 ELSE Append(run2.tiles, r.value)]
           /\ network' = IF r.value = Undefined THEN network
                         ELSE Append(network, [url |-> r.value.url])
    /\ UNCHANGED <<gridVars, tilesConfig, config, runVars, crsCache>>
    /\ UNCHANGED <<calls, clears, transform>>

NextTwoRuns == Next \/ Start2 \/ Launch2

SpecTwoRuns == InitFair /\ [][NextTwoRuns]_vars

-----------------------------------------------------------------------------
(* Properties of the urls and of the tiles handed to the caller *)

\* C27: for every configuration accepted by processTilesConfig, no url
\* produced by the enumeration still contains the placeholder {s}
C27_NoPlaceholderLeft ==
    Returned => \A k \in Launched : ~Includes(tiles[k].desc.url, PH("s"))

\* C28: every tile handed to the caller is the result of a fetch that this
\* run launched for an enumerated descriptor (z within minZoom..maxZoom,
\* x and y not negative and inside the TileRange of that zoom), and the
\* tile of a descriptor is handed out at most once
C28_YieldedOnceAndLaunched ==
    /\ \A i \in Yielded :
          /\ out[i].k \in Launched
          /\ tiles[out[i].k].state = "fulfilled"
          /\ LET d == tiles[out[i].k].desc
             IN  /\ config.minZoom <= d.z /\ d.z <= config.maxZoom
                 /\ d.x >= 0 /\ d.y >= 0
                 /\ \E n \in 1..Len(config.tileRanges) : InRange(d, config.tileRanges[n])
    /\ \A i \in Yielded : \A j \in Yielded :
          tiles[out[i].k].desc = tiles[out[j].k].desc => i = j

C28_Witness ==
    /\ Cardinality(Yielded) >= 3
    /\ \E i \in Yielded : \E j \in Yielded :
          /\ i < j /\ out[i].k > out[j].k
          /\ tiles[out[i].k].desc.z # tiles[out[j].k].desc.z
    /\ pc = "done"

\* C29: with maxParallelDownloads = 1 at most one fetch is in flight, the
\* fetch of the next descriptor is launched only after the tile before it
\* was handed out and the caller called next() again, every result is
\* handed out in enumeration order, and a run without failure hands out
\* every tile
C29_SerialDownloader ==
    /\ [](maxParallelDownloads = 1 =>
            /\ Cardinality(InFlight) <= 1
            /\ \A i \in Yielded \cup Failures : out[i].k = i
            /\ EndedNormally => Cardinality(Yielded) = config.totalCount)
    /\ [][(maxParallelDownloads = 1 /\ Len(tiles') > Len(tiles) /\ Len(tiles) >= 1) =>
            /\ \E i \in Yielded : out[i].k = Len(tiles)
            /\ requests >= 1]_vars

C29_Witness ==
    /\ maxParallelDownloads = 1
    /\ EndedNormally
    /\ Len(tiles) >= 3
    /\ Cardinality(Yielded) = Len(tiles)
    /\ pc = "done"

====
